---- MODULE Spec2Model ----
(***************************************************************************)
(* Model of the rag_web repository: the crawl -> chunk -> enrich -> store  *)
(* ingestion pipeline (src/crawl/crawler.py) and the query -> retrieve ->  *)
(* generate -> post-process pipeline (src/utils/rag_utils.py).             *)
(*                                                                         *)
(* Strings are sequences of one-character strings, so that concatenation,  *)
(* search and replacement are computed and not assumed.                    *)
(***************************************************************************)
EXTENDS Integers, Sequences, FiniteSets, TLC

(***************************************************************************)
(* Bounds of the model.                                                    *)
(***************************************************************************)
\* largest page cap max_pages tried (caps 0 .. MaxCap, and one negative cap)
MaxCap == 2
\* number of crawl runs against the same persistent collection
MaxRuns == 2
\* longest generation response tried, in characters
MaxRespLen == 5
\* longest text handed to chunk_text on its own, in characters
MaxTextLen == 6
\* largest chunk_size handed to chunk_text on its own
MaxChunkSize == 4
\* longest chat history handed to query_rag_system, in messages
MaxHistory == 5
\* longest URL an id is made from on its own, in characters
MaxUrlLen == 3
\* largest chunk number an id is made from on its own
MaxChunkNumber == 11
\* longest text handed to chunk_text where its termination is checked, in characters
MaxScanLen == 4

(***************************************************************************)
(* Strings.                                                                *)
(***************************************************************************)
Digit == <<"0", "1", "2", "3", "4", "5", "6", "7", "8", "9">>

\* str(n) for n >= 0, as f"{n}" formats it
RECURSIVE IntToStr(_)
IntToStr(n) ==
    IF n < 10 THEN <<Digit[n + 1]>>
    ELSE IntToStr(n \div 10) \o <<Digit[(n % 10) + 1]>>

\* index of the first occurrence of character c in s at or after i, 0 if none
RECURSIVE FindChar(_, _, _)
FindChar(s, c, i) ==
    IF i > Len(s) THEN 0
    ELSE IF s[i] = c THEN i
    ELSE FindChar(s, c, i + 1)

(***************************************************************************)
(* URLs.  A URL is host followed by an absolute path, "a/p"; the scheme is *)
(* the same for every URL and left out.                                    *)
(***************************************************************************)
Hosts == {<<"a">>, <<"b">>}
Paths == {<<"/", "p">>, <<"/", "q">>}
URLs == {h \o p : h \in Hosts, p \in Paths}

\* urlparse(url).netloc: the part before the first "/"
netloc(url) ==
    LET k == FindChar(url, "/", 1)
    IN  IF k = 0 THEN url ELSE SubSeq(url, 1, k - 1)

\* the href attributes a page may carry: absolute URLs and root-relative paths
Hrefs == {<<"a", "/", "p">>, <<"b", "/", "p">>, <<"/", "q">>}

\* urljoin(base_url, href): a root-relative href keeps the base's host
urljoin(base_url, href) ==
    IF href[1] = "/" THEN netloc(base_url) \o href ELSE href

\* a link extraction without the domain filter
extract_links_unfiltered(html, base_url) ==
    {urljoin(base_url, h) : h \in html.hrefs}

\* extract_links_from_html: resolve every href, keep the same-domain ones,
\* de-duplicate (the result is a set)
extract_links_from_html(html, base_url) ==
    {urljoin(base_url, h) : h \in
        {x \in html.hrefs : netloc(urljoin(base_url, x)) = netloc(base_url)}}

(***************************************************************************)
(* Pages.  A fetch returns None, or a body: "" or a page.  A page is known *)
(* by the length of its extracted text, the edition of its content, the    *)
(* number of chunks chunk_text cuts the text into, and its hrefs.          *)
(***************************************************************************)
\* the threshold of "if len(text_content) > 500"
MinTextLen == 500
\* chunk_text's default chunk_size
ChunkSize == 1500

\* the site's content changes over time: by run r it has served editions 1 .. r
Editions(r) == 1 .. r

\* the texts tried, <<length of the text, number of chunks chunk_text cuts it into>>:
\* a text of at most chunk_size characters is one chunk (crawler.py:49-51), a text of
\* twice chunk_size without break points is two
TextShapes == {<<MinTextLen, 1>>, <<MinTextLen + 1, 1>>, <<2 * ChunkSize, 2>>}

NoneHtml == [kind |-> "None", textlen |-> 0, nchunks |-> 0, ed |-> 1, hrefs |-> {}]
EmptyHtml == [kind |-> "empty", textlen |-> 0, nchunks |-> 0, ed |-> 1, hrefs |-> {}]

\* the pages the site may serve in run r
Htmls(r) ==
    {[kind |-> "page", textlen |-> t[1], nchunks |-> t[2], ed |-> e, hrefs |-> hs] :
        t \in TextShapes, e \in Editions(r), hs \in SUBSET Hrefs}

\* "if html:" -- None and the empty string are falsy
Truthy(html) == html.kind = "page"

\* a crawl that calls fetch_url again when it returned None
AfterFetchRetries(html) ==
    IF html.kind = "None" THEN "fetch"
    ELSE IF ~Truthy(html) THEN "sleep"
    ELSE IF html.textlen > MinTextLen THEN "enrich"
    ELSE "links"

\* a crawl that indexes a page whose text has 500 characters
AfterFetchIndexesShort(html) ==
    IF ~Truthy(html) THEN "sleep"
    ELSE IF html.textlen >= MinTextLen THEN "enrich"
    ELSE "links"

\* crawler.py:256-260: where crawl_website goes with what fetch_url returned: to the
\* pause when html is falsy, to process_and_store_document when the text has more
\* than 500 characters, else straight to the link extraction
AfterFetch(html) ==
    IF ~Truthy(html) THEN "sleep"
    ELSE IF html.textlen > MinTextLen THEN "enrich"
    ELSE "links"

\* chunk_text(content) as the crawl uses it: the chunks of the page, in text order
PageChunks(html) ==
    [i \in 1 .. html.nchunks |-> [ed |-> html.ed, part |-> i]]

(***************************************************************************)
(* Enrichment and the store.                                               *)
(***************************************************************************)
\* default_dim of get_embedding's fallback vector
default_dim == 1024

\* get_title_and_content: the generated title, or the default one
TitleOf(url, outcome) ==
    IF outcome = "ok" THEN <<"T">> ELSE <<"content from ">> \o netloc(url)

VARIABLES
    EMBEDDING_MODEL   \* os.getenv("EMBEDDING_MODEL", "bge-m3"), read when crawler.py loads

configVars == <<EMBEDDING_MODEL>>

\* the default embedding model and another one the environment may name
EmbeddingModels == {"bge-m3", "nomic-embed-text"}

\* the length of the vectors the embedding service returns for the model
DimOf(model) == IF model = "bge-m3" THEN default_dim ELSE 768

\* get_embedding: the service's vector, or the zero vector of default_dim
EmbeddingOf(outcome) ==
    IF outcome = "ok" THEN [dim |-> DimOf(EMBEDDING_MODEL), zero |-> FALSE]
    ELSE [dim |-> default_dim, zero |-> TRUE]

\* an id without the separator between the URL and the chunk number
MakeIdNoSeparator(url, chunk_number) == url \o IntToStr(chunk_number)

\* f"{chunk.url}_{chunk.chunk_number}"
MakeId(url, chunk_number) == url \o <<"_">> \o IntToStr(chunk_number)

\* a chunk numbering that starts at 1
process_chunk_from_one(chunk, n, url, tOutcome, eOutcome, now) ==
    [url |-> url, chunk_number |-> n + 1, title |-> TitleOf(url, tOutcome),
     summary |-> chunk, content |-> chunk, embedding |-> EmbeddingOf(eOutcome),
     crawled_at |-> now]

\* process_chunk: the ProcessedChunk of chunk number n (0-based) of url
process_chunk(chunk, n, url, tOutcome, eOutcome, now) ==
    [url |-> url, chunk_number |-> n, title |-> TitleOf(url, tOutcome),
     summary |-> chunk, content |-> chunk, embedding |-> EmbeddingOf(eOutcome),
     crawled_at |-> now]

\* the record insert_chunk hands to collection.add
RecordOf(pchunk) ==
    [id |-> MakeId(pchunk.url, pchunk.chunk_number), document |-> pchunk.content,
     embedding |-> pchunk.embedding, url |-> pchunk.url,
     chunk_number |-> pchunk.chunk_number, title |-> pchunk.title,
     summary |-> pchunk.summary, crawled_at |-> pchunk.crawled_at]

HasId(st, id) == \E r \in st : r.id = id

\* a write that never looks at the ids the collection holds
CollectionAddBlind(st, rec, outcome) ==
    IF outcome = "raise" THEN st ELSE st \cup {rec}

\* collection.add raises when the store fails ("raise") and when the embedding has
\* not the dimension of the embeddings the collection holds
AddRaises(st, rec, outcome) ==
    \/ outcome = "raise"
    \/ \E r \in st : r.embedding.dim # rec.embedding.dim

\* collection.add: a record whose id is new is inserted; one whose id exists already
\* is not added (the collection keeps the record it has); a write that raises adds
\* nothing
CollectionAdd(st, rec, outcome) ==
    IF AddRaises(st, rec, outcome) \/ HasId(st, rec.id) THEN st ELSE st \cup {rec}

(***************************************************************************)
(* State of a crawl.                                                       *)
(***************************************************************************)
VARIABLES
    pc,               \* position of crawl_website
    start_url,        \* argument of crawl_website
    max_pages,        \* argument of crawl_website
    visited_urls,     \* local of crawl_website
    queued_urls,      \* local of crawl_website
    processed_count,  \* local of crawl_website
    current_url,      \* local of crawl_website ("" before the first pop)
    html,             \* result of fetch_url for current_url
    toEnrich,         \* chunk numbers whose process_chunk task has not finished
    processed_chunks, \* chunk number -> ProcessedChunk, results of the first gather
    toInsert,         \* chunk numbers whose insert_chunk task has not finished
    store,            \* the records of the collection
    run,              \* number of the crawl run (the clock of crawled_at)
    fetches,          \* URL -> number of fetch_url calls in this run
    written,          \* <<url, chunk number>> whose collection.add returned normally in this run
    relinked,         \* a link to an already visited URL was seen in this run
    result            \* value returned by crawl_website, -1 before it returns

VARIABLES
    qpc,              \* position of query_rag_system
    results,          \* results["documents"][0] zipped with results["metadatas"][0]
    context_parts,    \* local of query_rag_system
    sources,          \* local of query_rag_system, then the "sources" returned
    answer_raw,       \* the generation service's response
    answer,           \* the "answer" returned
    gen_calls,        \* number of llm.invoke calls of this query
    q_error,          \* the call that raised: "none", "embed", "retrieve", "generate"
    session,          \* st.session_state.messages when render_chat calls, else <<>>
    chat_history,     \* argument chat_history of query_rag_system
    prompt            \* the prompt handed to llm.invoke

VARIABLES
    ct_pc,            \* position of chunk_text: "loop", "done", or "idle"
    ct_text,          \* argument text of chunk_text
    ct_size,          \* argument chunk_size of chunk_text
    ct_start,         \* local start of chunk_text
    ct_chunks,        \* local chunks of chunk_text
    ct_cuts           \* the kinds of cut taken so far in this call

chunkVars == <<ct_pc, ct_text, ct_size, ct_start, ct_chunks, ct_cuts>>

VARIABLES
    id_pc,            \* position of the id's making: "make", "made", or "idle"
    id_url,           \* chunk.url
    id_chunk_number,  \* chunk.chunk_number
    id_value          \* the id handed to collection.add

idVars == <<id_pc, id_url, id_chunk_number, id_value>>

queryVars == <<qpc, results, context_parts, sources, answer_raw, answer, gen_calls,
               q_error, session, chat_history, prompt>>

crawlVars == <<pc, start_url, max_pages, visited_urls, queued_urls, processed_count,
               current_url, html, toEnrich, processed_chunks, toInsert, store, run,
               fetches, written, relinked, result>>

vars == <<crawlVars, queryVars, chunkVars, configVars, idVars>>

\* chunk_text is not running on its own
ChunkIdle ==
    /\ ct_pc = "idle"
    /\ ct_text = <<>>
    /\ ct_size = 0
    /\ ct_start = 0
    /\ ct_chunks = <<>>
    /\ ct_cuts = {}

\* no id is being made on its own
IdIdle ==
    /\ id_pc = "idle"
    /\ id_url = <<>>
    /\ id_chunk_number = 0
    /\ id_value = <<>>

nonCrawlVars == <<queryVars, chunkVars, configVars, idVars>>

nonQueryVars == <<crawlVars, chunkVars, configVars, idVars>>

\* no query has been made
QueryIdle ==
    /\ qpc = "idle"
    /\ results = <<>>
    /\ context_parts = <<>>
    /\ sources = <<>>
    /\ answer_raw = <<>>
    /\ answer = <<>>
    /\ gen_calls = 0
    /\ q_error = "none"
    /\ session = <<>>
    /\ chat_history = <<>>
    /\ prompt = [history |-> <<>>, context |-> <<>>, query |-> <<>>]

NoUrl == <<>>
Seeds == {<<"a", "/", "p">>}
Caps == {-1} \cup (0 .. MaxCap)

\* crawler.py:241-243, the locals of crawl_website at entry
EnterCrawl(seed, cap) ==
    /\ pc' = "loop"
    /\ start_url' = seed
    /\ max_pages' = cap
    /\ visited_urls' = {}
    /\ queued_urls' = {seed}
    /\ processed_count' = 0
    /\ current_url' = NoUrl
    /\ html' = NoneHtml
    /\ toEnrich' = {}
    /\ processed_chunks' = <<>>
    /\ toInsert' = {}
    /\ fetches' = [u \in URLs |-> 0]
    /\ written' = {}
    /\ relinked' = FALSE
    /\ result' = -1

CrawlInit ==
    /\ EMBEDDING_MODEL \in EmbeddingModels
    /\ pc = "loop"
    /\ start_url \in Seeds
    /\ max_pages \in Caps
    /\ visited_urls = {}
    /\ queued_urls = {start_url}
    /\ processed_count = 0
    /\ current_url = NoUrl
    /\ html = NoneHtml
    /\ toEnrich = {}
    /\ processed_chunks = <<>>
    /\ toInsert = {}
    /\ store = {}
    /\ run = 1
    /\ fetches = [u \in URLs |-> 0]
    /\ written = {}
    /\ relinked = FALSE
    /\ result = -1
    /\ QueryIdle
    /\ ChunkIdle
    /\ IdIdle

\* a loop condition that lets one page too many through
LoopConditionOffByOne == queued_urls # {} /\ Cardinality(visited_urls) <= max_pages

\* "while queued_urls and len(visited_urls) < max_pages"
LoopCondition == queued_urls # {} /\ Cardinality(visited_urls) < max_pages

\* a crawl that forgets to record the URL it visits
MarkVisitedForgets(visited, url) == visited

\* visited_urls.add(current_url)
MarkVisited(visited, url) == visited \cup {url}

\* crawler.py:246-253: test the loop condition, pop any URL, skip it if visited,
\* else mark it visited
PopUrl ==
    /\ UNCHANGED nonCrawlVars
    /\ pc = "loop"
    /\ LoopCondition
    /\ \E u \in queued_urls :
        /\ queued_urls' = queued_urls \ {u}
        /\ current_url' = u
        /\ IF u \in visited_urls
           THEN pc' = "loop" /\ visited_urls' = visited_urls
           ELSE pc' = "fetch" /\ visited_urls' = MarkVisited(visited_urls, u)
    /\ UNCHANGED <<start_url, max_pages, processed_count, html, toEnrich,
                   processed_chunks, toInsert, store, run, fetches, written,
                   relinked, result>>

\* crawler.py:246, 274-275: the loop condition fails, the count is returned
ExitLoop ==
    /\ UNCHANGED nonCrawlVars
    /\ pc = "loop"
    /\ ~LoopCondition
    /\ pc' = "done"
    /\ result' = processed_count
    /\ UNCHANGED <<start_url, max_pages, visited_urls, queued_urls, processed_count,
                   current_url, html, toEnrich, processed_chunks, toInsert, store,
                   run, fetches, written, relinked>>

\* crawler.py:256-261 with fetch_url (189-201): the fetch returns None (timeout, status
\* other than 200, network error), or a body; a page with more than 500 characters of
\* text goes to process_and_store_document, whose tasks are created (181-182).
\* The call counter stops at 2: a second call for one URL is all a property has to see.
Fetch ==
    /\ UNCHANGED nonCrawlVars
    /\ pc = "fetch"
    /\ fetches[current_url] < 2
    /\ fetches' = [fetches EXCEPT ![current_url] = @ + 1]
    /\ \E h \in {NoneHtml, EmptyHtml} \cup Htmls(run) :
        /\ html' = h
        /\ pc' = AfterFetch(h)
        /\ toEnrich' = IF AfterFetch(h) = "enrich" THEN 0 .. (h.nchunks - 1) ELSE {}
    /\ processed_chunks' = <<>>
    /\ UNCHANGED <<start_url, max_pages, visited_urls, queued_urls, processed_count,
                   current_url, toInsert, store, run, written, relinked, result>>

\* a gather that returns when its first task ends
GatherReturnsEarly(pending) == TRUE

\* crawler.py:183: asyncio.gather returns when none of its tasks is pending
GatherReturns(pending) == pending = {}

\* crawler.py:130-150, 183: one process_chunk task runs to its end, in any order among
\* the page's tasks; when the last one ends the gather returns and the insert tasks are
\* created, one for each processed chunk (184)
EnrichChunk ==
    /\ UNCHANGED nonCrawlVars
    /\ pc = "enrich"
    /\ \E n \in toEnrich, tOutcome \in {"ok", "fail"}, eOutcome \in {"ok", "fail"} :
        /\ toEnrich' = toEnrich \ {n}
        /\ processed_chunks' =
              [i \in (DOMAIN processed_chunks) \cup {n} |->
                  IF i = n
                  THEN process_chunk(PageChunks(html)[n + 1], n, current_url,
                                     tOutcome, eOutcome, run)
                  ELSE processed_chunks[i]]
        /\ IF GatherReturns(toEnrich')
           THEN pc' = "insert" /\ toInsert' = DOMAIN processed_chunks'
           ELSE pc' = "enrich" /\ toInsert' = toInsert
    /\ UNCHANGED <<start_url, max_pages, visited_urls, queued_urls, processed_count,
                   current_url, html, store, run, fetches, written, relinked, result>>

\* crawler.py:175-176, 185: insert_chunk catches the error of its write, so the gather
\* goes on with the tasks that are pending and returns when none is
AfterInsert(outcome, pending) ==
    IF pending = {} THEN "links" ELSE "insert"

\* crawler.py:153-176, 185-186, 262: one insert_chunk task runs to its end, in any
\* order; a failed write is caught and logged; when the last one ends the gather
\* returns and the page is counted
InsertChunk ==
    /\ UNCHANGED nonCrawlVars
    /\ pc = "insert"
    /\ \E n \in toInsert, outcome \in {"ok", "raise"} :
        /\ toInsert' = toInsert \ {n}
        /\ store' = CollectionAdd(store, RecordOf(processed_chunks[n]), outcome)
        /\ written' = IF AddRaises(store, RecordOf(processed_chunks[n]), outcome)
                      THEN written
                      ELSE written \cup {<<current_url, n>>}
        /\ pc' = AfterInsert(outcome, toInsert')
        /\ processed_count' = IF AfterInsert(outcome, toInsert') = "links"
                               THEN processed_count + 1
                               ELSE processed_count
    /\ UNCHANGED <<start_url, max_pages, visited_urls, queued_urls, current_url, html,
                   toEnrich, processed_chunks, run, fetches, relinked, result>>

\* a queueing that does not look at the visited set
LinksToQueueUnfiltered(new_links, visited) == new_links

\* crawler.py:267-269: "if link not in visited_urls: queued_urls.add(link)"
LinksToQueue(new_links, visited) == {l \in new_links : l \notin visited}

\* crawler.py:266-269: the same-domain links that are not visited are queued
ExtractLinks ==
    /\ UNCHANGED nonCrawlVars
    /\ pc = "links"
    /\ LET new_links == extract_links_from_html(html, current_url)
       IN  /\ queued_urls' = queued_urls \cup LinksToQueue(new_links, visited_urls)
           /\ relinked' = (relinked \/ \E l \in new_links : l \in visited_urls)
    /\ pc' = "sleep"
    /\ UNCHANGED <<start_url, max_pages, visited_urls, processed_count, current_url,
                   html, toEnrich, processed_chunks, toInsert, store, run, fetches,
                   written, result>>

\* crawler.py:272: the pause after each visited URL, then back to the loop head
Sleep ==
    /\ UNCHANGED nonCrawlVars
    /\ pc = "sleep"
    /\ pc' = "loop"
    /\ html' = NoneHtml
    /\ processed_chunks' = <<>>
    /\ UNCHANGED <<start_url, max_pages, visited_urls, queued_urls, processed_count,
                   current_url, toEnrich, toInsert, store, run, fetches, written,
                   relinked, result>>

\* app.py:158-169: the caller starts another crawl on the same collection
StartCrawl ==
    /\ UNCHANGED nonCrawlVars
    /\ pc = "done"
    /\ run < MaxRuns
    /\ run' = run + 1
    /\ store' = store
    /\ EnterCrawl(start_url, max_pages)

CrawlStep ==
    \/ PopUrl
    \/ ExitLoop
    \/ Fetch
    \/ EnrichChunk
    \/ InsertChunk
    \/ ExtractLinks
    \/ Sleep

\* one crawl run, for every cap
SpecCrawl == CrawlInit /\ [][CrawlStep]_vars

\* repeated crawl runs on the same collection, each of one page
RecrawlCaps == {1}

RecrawlInit == CrawlInit /\ max_pages \in RecrawlCaps

RecrawlNext ==
    \/ CrawlStep
    \/ StartCrawl

SpecRecrawl == RecrawlInit /\ [][RecrawlNext]_vars

\* one crawl run under the scheduler's guarantee: the event loop resumes the crawl's
\* coroutine whenever a step of it can be taken (every awaited call returns)
SpecCrawlFair == SpecCrawl /\ WF_vars(CrawlStep)

(***************************************************************************)
(* Properties of the crawl.                                                *)
(***************************************************************************)
RECURSIVE SumOver(_, _)
SumOver(f, S) ==
    IF S = {} THEN 0
    ELSE LET x == CHOOSE y \in S : TRUE
         IN  f[x] + SumOver(f, S \ {x})

TotalFetches == SumOver(fetches, URLs)

NonNeg(n) == IF n < 0 THEN 0 ELSE n

\* the pages of this run with at least one chunk written without error
StoredPages == {u \in visited_urls : \E w \in written : w[1] = u}

\* the chunk numbers of the current page whose insert_chunk task has finished
Inserted ==
    IF pc \in {"insert", "links"} THEN (DOMAIN processed_chunks) \ toInsert ELSE {}

RecordsWithId(id) == {r \in store : r.id = id}

\* C1: every crawl run terminates: whatever the seed, the cap, the link graph and the
\* fetch, enrichment and write outcomes, the loop exits and the count is returned.
C1_CrawlTerminates == <>(pc = "done" /\ result = processed_count)

\* a run that ended after meeting a link back to a visited page, two pages visited
C1_Witness ==
    pc = "done" /\ relinked /\ Cardinality(visited_urls) = 2 /\ result = 2

\* C2: the visited set, and the number of fetches, never exceed the cap; with a cap
\* <= 0 nothing is fetched; and the crawl has stopped only with the queue empty or
\* the cap reached.
C2_PageCap ==
    /\ Cardinality(visited_urls) <= NonNeg(max_pages)
    /\ TotalFetches <= NonNeg(max_pages)
    /\ (max_pages <= 0 => TotalFetches = 0 /\ visited_urls = {})
    /\ (pc = "done" =>
            queued_urls = {} \/ Cardinality(visited_urls) >= max_pages)

\* a run stopped by the cap with a URL still queued
C2_Witness ==
    /\ pc = "done"
    /\ max_pages = 1
    /\ queued_urls # {}
    /\ Cardinality(visited_urls) = 1
    /\ TotalFetches = 1

\* C3: within one run no URL is handed to fetch_url twice.
C3_FetchedAtMostOnce == \A u \in URLs : fetches[u] <= 1

\* both pages fetched, each once, after a link back to a visited page was met
C3_Witness ==
    /\ relinked
    /\ TotalFetches = 2
    /\ pc = "loop"
    /\ \A u \in visited_urls : fetches[u] = 1

\* C4: the value crawl_website returns is the number of visited pages with at least
\* one chunk written successfully.
C4_ReturnCountsStoredPages ==
    pc = "done" => result = Cardinality(StoredPages)

\* C5: a chunk written again under an id the collection holds, with the content it
\* holds, leaves the collection as it was, and no id is ever held by two records.
C5_ReingestIdempotent ==
    /\ [](\A r \in store : Cardinality(RecordsWithId(r.id)) = 1)
    /\ [][\A n \in toInsert \ toInsert' :
            (\E r \in store : /\ r.id = MakeId(current_url, n)
                              /\ r.document = processed_chunks[n].content)
            => /\ store' = store
               /\ Cardinality({r \in store' : r.id = MakeId(current_url, n)}) = 1
         ]_vars

\* in a later run, a chunk of unchanged content has been written again without error
\* over the record an earlier run stored
C5_Witness ==
    \E n \in Inserted :
        /\ <<current_url, n>> \in written
        /\ \E r \in store :
              /\ r.id = MakeId(current_url, n)
              /\ r.crawled_at < run
              /\ r.document = processed_chunks[n].content

\* C6: once a chunk has been written without error, the record under its id holds the
\* content, title and embedding just written.
C6_UpsertOverwrites ==
    \A n \in Inserted :
        <<current_url, n>> \in written =>
            \E r \in store :
                /\ r.id = MakeId(current_url, n)
                /\ r.document = processed_chunks[n].content
                /\ r.title = processed_chunks[n].title
                /\ r.embedding = processed_chunks[n].embedding

(***************************************************************************)
(* Text operations of the query path.                                      *)
(***************************************************************************)
\* s[i .. i + Len(t) - 1] = t
MatchAt(s, t, i) ==
    /\ i + Len(t) - 1 <= Len(s)
    /\ SubSeq(s, i, i + Len(t) - 1) = t

\* s.replace(old, ""): one scan from the left, removing each occurrence found and
\* going on after it (old is not empty)
RECURSIVE Remove(_, _)
Remove(s, old) ==
    IF Len(s) < Len(old) THEN s
    ELSE IF MatchAt(s, old, 1) THEN Remove(SubSeq(s, Len(old) + 1, Len(s)), old)
    ELSE <<s[1]>> \o Remove(Tail(s), old)

\* the white space str.strip() removes, as far as the texts tried hold any
Whitespace == {" ", "\n"}

RECURSIVE LStrip(_)
LStrip(s) ==
    IF s # <<>> /\ s[1] \in Whitespace THEN LStrip(Tail(s)) ELSE s

RECURSIVE RStrip(_)
RStrip(s) ==
    IF s # <<>> /\ s[Len(s)] \in Whitespace THEN RStrip(SubSeq(s, 1, Len(s) - 1)) ELSE s

\* s.strip()
Strip(s) == RStrip(LStrip(s))

\* number of occurrences of t in s
Count(s, t) == Cardinality({i \in 1 .. Len(s) : MatchAt(s, t, i)})

EndsWith(s, t) == Len(t) <= Len(s) /\ SubSeq(s, Len(s) - Len(t) + 1, Len(s)) = t

StartsWith(s, t) == MatchAt(s, t, 1)

(***************************************************************************)
(* The fixed texts of query_rag_system.  The disclaimer is a text of two   *)
(* characters that, like the source's, neither begins nor ends with white  *)
(* space and has no proper prefix that is also a suffix; the other fixed   *)
(* texts are single characters that do not occur in it.                    *)
(***************************************************************************)
\* disclaimer_text (rag_utils.py:136) and error_disclaimer (160)
disclaimer_text == <<"d", "D">>
\* the "\\n\\n" of the f-strings: backslash, n, backslash, n
Sep == <<"\\", "n", "\\", "n">>
\* the fixed answer when no context was found (141, 150)
NoInfoAnswer == <<"N">>
\* the fixed answer when context was found but the response was empty (143)
InsufficientAnswer == <<"I">>
\* the fixed beginning of the error answer (162)
ErrorPrefix == <<"E">>

\* the characters of a generation response
Alphabet == {"d", "D", "x", " "}

RECURSIVE StringsUpTo(_)
StringsUpTo(n) ==
    IF n = 0 THEN {<<>>}
    ELSE LET shorter == StringsUpTo(n - 1)
         IN  shorter \cup {Append(t, c) : t \in shorter, c \in Alphabet}

Responses == StringsUpTo(MaxRespLen)

\* str(e) of the exception caught
ErrorTexts == {<<>>, <<"x">>}

\* num_results, the k of the retrieval
num_results == 3

(***************************************************************************)
(* query_rag_system.                                                       *)
(***************************************************************************)
\* an error result that keeps the sources collected before the failure
ErrorResultKeepingSources(e, collected) ==
    [answer |-> ErrorPrefix \o e \o Sep \o disclaimer_text, sources |-> collected]

\* rag_utils.py:157-164: the result of the exception handler
ErrorResult(e, collected) ==
    [answer |-> ErrorPrefix \o e \o Sep \o disclaimer_text, sources |-> <<>>]

Min(a, b) == IF a < b THEN a ELSE b

\* collection.query: the n_results nearest records, nearest first; which records are
\* nearest depends on the embeddings, so any order of any n_results of them
Retrievals(st, k) ==
    LET m == Min(k, Cardinality(st))
    IN  {r \in [1 .. m -> st] : \A i, j \in 1 .. m : r[i] = r[j] => i = j}

\* a source entry with the title and the url in each other's place
SourceOfSwapped(rec) == [title |-> rec.url, url |-> rec.title, summary |-> rec.summary]

\* rag_utils.py:84-88: the source entry of a retrieved record
SourceOf(rec) == [title |-> rec.title, url |-> rec.url, summary |-> rec.summary]

\* rag_utils.py:83: the context line of a retrieved record
ContextOf(rec) == [title |-> rec.title, doc |-> rec.document]

\* rag_utils.py:137: the response without the disclaimer, trimmed
ProcessedAnswer(raw) == Strip(Remove(raw, disclaimer_text))

\* rag_utils.py:136-156: the result built from the response
PostProcess(raw, ctx, retrieved, collected) ==
    LET stripped == ProcessedAnswer(raw)
        processed_answer ==
            IF stripped = <<>> \/ stripped = Strip(disclaimer_text)
            THEN IF ctx = <<>> THEN NoInfoAnswer ELSE InsufficientAnswer
            ELSE stripped
    IN  IF retrieved = <<>>
        THEN [answer |-> NoInfoAnswer \o Sep \o disclaimer_text, sources |-> <<>>]
        ELSE [answer |-> processed_answer \o Sep \o disclaimer_text,
              sources |-> collected]

\* message i of a conversation: the user and the assistant speak in turn
Message(i) == [role |-> IF i % 2 = 1 THEN "user" ELSE "assistant", content |-> i]

\* the first n messages of the conversation
Conversation(n) == [i \in 1 .. n |-> Message(i)]

\* the number of messages render_chat passes on, the 4 of recent_messages[-4:]
RecentMessages == 4

\* app.py:100-105: the history render_chat hands over: the messages before the current
\* query (the last of the session), the last 4 of them at most, role and content only
HistoryForRag(messages) ==
    LET recent_messages == SubSeq(messages, 1, Len(messages) - 1)
        n == Len(recent_messages)
        first == IF n > RecentMessages THEN n - RecentMessages + 1 ELSE 1
    IN  [i \in 1 .. (n - first + 1) |->
            [role |-> recent_messages[first + i - 1].role,
             content |-> recent_messages[first + i - 1].content]]

\* history lines that keep the last 4 messages only
HistoryLinesLastFour(history) ==
    LET n == Len(history)
        first == IF n > RecentMessages THEN n - RecentMessages + 1 ELSE 1
    IN  [i \in 1 .. (n - first + 1) |->
            [label |-> IF history[first + i - 1].role = "user" THEN "user" ELSE "AI",
             content |-> history[first + i - 1].content]]

\* rag_utils.py:116-122: one role-labelled line for each message of chat_history
HistoryLines(history) ==
    [i \in 1 .. Len(history) |->
        [label |-> IF history[i].role = "user" THEN "user" ELSE "AI",
         content |-> history[i].content]]

\* the current question
Query == <<"q">>

\* rag_utils.py:125-130: the prompt: the history lines, the context lines (or the
\* "no reference found" text, here <<>>), and the query, after the system prompt
BuildPrompt(history, ctx, query) ==
    [history |-> HistoryLines(history), context |-> ctx, query |-> query]

\* the calls made: by render_chat, after the session's n-th message (the query), or
\* by another caller with a history of its own choosing
QueryCalls ==
    {[session |-> Conversation(n), chat_history |-> HistoryForRag(Conversation(n))] :
        n \in 1 .. (MaxHistory + 1)}
    \cup {[session |-> <<>>, chat_history |-> Conversation(n)] : n \in 0 .. MaxHistory}

\* the records a crawl leaves in the collection
StoredRecord(url, n, tOutcome) ==
    RecordOf(process_chunk([ed |-> 1, part |-> n + 1], n, url, tOutcome, "ok", 1))

UrlP == <<"a", "/", "p">>
UrlQ == <<"a", "/", "q">>

\* the collections queried: empty, one record, more records than num_results
QueryStores ==
    { {},
      {StoredRecord(UrlP, 0, "ok")},
      {StoredRecord(UrlP, 0, "ok"), StoredRecord(UrlP, 1, "fail"),
       StoredRecord(UrlQ, 0, "ok"), StoredRecord(UrlQ, 1, "ok")} }

\* no crawl is running
CrawlIdle ==
    /\ EMBEDDING_MODEL = "bge-m3"
    /\ pc = "idle"
    /\ start_url = NoUrl
    /\ max_pages = 0
    /\ visited_urls = {}
    /\ queued_urls = {}
    /\ processed_count = 0
    /\ current_url = NoUrl
    /\ html = NoneHtml
    /\ toEnrich = {}
    /\ processed_chunks = <<>>
    /\ toInsert = {}
    /\ run = 1
    /\ fetches = [u \in URLs |-> 0]
    /\ written = {}
    /\ relinked = FALSE
    /\ result = -1

\* query_rag_system is entered on a collection some crawl has filled
QueryInit ==
    /\ CrawlIdle
    /\ store \in QueryStores
    /\ qpc = "embed"
    /\ results = <<>>
    /\ context_parts = <<>>
    /\ sources = <<>>
    /\ answer_raw = <<>>
    /\ answer = <<>>
    /\ gen_calls = 0
    /\ q_error = "none"
    /\ \E c \in QueryCalls : session = c.session /\ chat_history = c.chat_history
    /\ prompt = [history |-> <<>>, context |-> <<>>, query |-> <<>>]
    /\ ChunkIdle
    /\ IdIdle

\* the exception handler returns (rag_utils.py:157-164)
Fail(stage, e) ==
    /\ q_error' = stage
    /\ qpc' = "returned"
    /\ answer' = ErrorResult(e, sources).answer
    /\ sources' = ErrorResult(e, sources).sources

\* rag_utils.py:67: the query is embedded, or the call raises
EmbedQuery ==
    /\ UNCHANGED nonQueryVars
    /\ qpc = "embed"
    /\ \/ /\ qpc' = "retrieve"
          /\ UNCHANGED <<sources, answer, q_error>>
       \/ \E e \in ErrorTexts : Fail("embed", e)
    /\ UNCHANGED <<results, context_parts, answer_raw, gen_calls, session,
                   chat_history, prompt>>

\* rag_utils.py:69-90: the nearest records are retrieved and the context and the
\* sources are collected from them, or the call raises
Retrieve ==
    /\ UNCHANGED nonQueryVars
    /\ qpc = "retrieve"
    /\ \/ \E r \in Retrievals(store, num_results) :
            /\ results' = r
            /\ context_parts' = [i \in 1 .. Len(r) |-> ContextOf(r[i])]
            /\ sources' = [i \in 1 .. Len(r) |-> SourceOf(r[i])]
            /\ qpc' = "generate"
            /\ UNCHANGED <<answer, q_error>>
       \/ /\ \E e \in ErrorTexts : Fail("retrieve", e)
          /\ UNCHANGED <<results, context_parts>>
    /\ UNCHANGED <<answer_raw, gen_calls, session, chat_history, prompt>>

\* rag_utils.py:92-156: the prompt is built and llm.invoke is called with it; the
\* response is post-processed and the result returned, or the call raises
Generate ==
    /\ UNCHANGED nonQueryVars
    /\ qpc = "generate"
    /\ prompt' = BuildPrompt(chat_history, context_parts, Query)
    /\ gen_calls' = gen_calls + 1
    /\ \/ \E raw \in Responses :
            /\ answer_raw' = raw
            /\ answer' = PostProcess(raw, context_parts, results, sources).answer
            /\ sources' = PostProcess(raw, context_parts, results, sources).sources
            /\ qpc' = "returned"
            /\ UNCHANGED q_error
       \/ /\ \E e \in ErrorTexts : Fail("generate", e)
          /\ UNCHANGED answer_raw
    /\ UNCHANGED <<results, context_parts, session, chat_history>>

QueryNext ==
    \/ EmbedQuery
    \/ Retrieve
    \/ Generate

SpecQuery == QueryInit /\ [][QueryNext]_vars

(***************************************************************************)
(* Properties of the query path.                                           *)
(***************************************************************************)
\* the retrieval of this query has returned
Retrieved == qpc \in {"generate", "returned"} /\ q_error \notin {"embed", "retrieve"}

CannedNoInfo == NoInfoAnswer \o Sep \o disclaimer_text

\* C7: when retrieval returns no record, the generation service is not invoked.
C7_NoGenerationOnEmptyRetrieval ==
    (Retrieved /\ results = <<>>) => gen_calls = 0

\* C8: when retrieval returns no record, the result is the fixed "no information"
\* answer followed by the disclaimer, with no sources, whatever generation does.
C8_EmptyRetrievalCannedAnswer ==
    (qpc = "returned" /\ Retrieved /\ results = <<>>) =>
        answer = CannedNoInfo /\ sources = <<>>

\* C9: for every non-empty response the answer returned holds the disclaimer once.
C9_DisclaimerOnce ==
    (qpc = "returned" /\ q_error = "none" /\ answer_raw # <<>>) =>
        Count(answer, disclaimer_text) = 1

\* C10: when the embedding, the retrieval or the generation call raises, a result is
\* still returned: the error answer, ending with the disclaimer, and no sources.
C10_ErrorResult ==
    /\ (q_error # "none" =>
            /\ qpc = "returned"
            /\ StartsWith(answer, ErrorPrefix)
            /\ EndsWith(answer, Sep \o disclaimer_text)
            /\ sources = <<>>)
    /\ (qpc = "returned" \/ ENABLED QueryNext)

\* generation raised after records had been retrieved
C10_Witness ==
    qpc = "returned" /\ q_error = "generate" /\ Len(results) >= 1 /\ gen_calls = 1

(***************************************************************************)
(* chunk_text on its own (crawler.py:41-69), one action per loop           *)
(* iteration, on every text of up to MaxTextLen characters and every       *)
(* chunk_size of 1 .. MaxChunkSize.                                        *)
(***************************************************************************)
\* the characters of a text: a letter, a full stop, a space, a line feed
TextAlphabet == {"x", ".", " ", "\n"}

RECURSIVE TextsUpTo(_)
TextsUpTo(n) ==
    IF n = 0 THEN {<<>>}
    ELSE LET shorter == TextsUpTo(n - 1)
         IN  shorter \cup {Append(t, c) : t \in shorter, c \in TextAlphabet}

\* text[a:b] of Python, 0 <= a <= b
Slice(text, a, b) == SubSeq(text, a + 1, Min(b, Len(text)))

\* s.rfind(t): the highest 0-based index at which t occurs in s, -1 if none
RFind(s, t) ==
    LET hits == {i \in 1 .. Len(s) : MatchAt(s, t, i)}
    IN  IF hits = {} THEN -1 ELSE (CHOOSE i \in hits : \A j \in hits : j <= i) - 1

ParagraphBreak == <<"\n", "\n">>
SentenceBreak == <<".", " ">>

\* "x > chunk_size * 0.3"
PastThreshold(x, chunk_size) == 10 * x > 3 * chunk_size

\* crawler.py:53-62: the end of the window that starts at start, and the kind of cut
CutOf(text, start, chunk_size) ==
    LET chunk == Slice(text, start, start + chunk_size)
        paragraph_break == RFind(chunk, ParagraphBreak)
        last_period == RFind(chunk, SentenceBreak)
    IN  IF PastThreshold(paragraph_break, chunk_size)
        THEN [end |-> start + paragraph_break + 2, kind |-> "paragraph"]
        ELSE IF last_period >= 0 /\ PastThreshold(last_period, chunk_size)
        THEN [end |-> start + last_period + 1, kind |-> "sentence"]
        ELSE [end |-> start + chunk_size, kind |-> "hard"]

\* a scan that steps over the character at the cut
AdvanceStartSkipping(end) == end + 1

\* a scan that moves to the character before the cut
AdvanceStartBack(end) == end - 1

\* crawler.py:67: start = end
AdvanceStart(end) == end

\* crawler.py:41-45: chunk_text is entered with one of texts and a chunk_size of sizes
ChunkTextEnter(texts, sizes) ==
    /\ CrawlIdle
    /\ store = {}
    /\ QueryIdle
    /\ IdIdle
    /\ ct_pc = "loop"
    /\ ct_text \in texts
    /\ ct_size \in sizes
    /\ ct_start = 0
    /\ ct_chunks = <<>>
    /\ ct_cuts = {}

ChunkTextInit == ChunkTextEnter(TextsUpTo(MaxTextLen), 1 .. MaxChunkSize)

\* crawler.py:47: the loop condition fails, chunks is returned
ChunkTextReturn ==
    /\ ct_pc = "loop"
    /\ ~(ct_start < Len(ct_text))
    /\ ct_pc' = "done"
    /\ UNCHANGED <<ct_text, ct_size, ct_start, ct_chunks, ct_cuts>>
    /\ UNCHANGED <<crawlVars, queryVars, configVars, idVars>>

\* crawler.py:48-51: the window reaches the end of the text: the remainder is
\* appended, trimmed, and the loop is left
ChunkTextLast ==
    /\ ct_pc = "loop"
    /\ ct_start < Len(ct_text)
    /\ ct_start + ct_size >= Len(ct_text)
    /\ ct_chunks' = Append(ct_chunks, Strip(Slice(ct_text, ct_start, Len(ct_text))))
    /\ ct_cuts' = ct_cuts \cup {"last"}
    /\ ct_pc' = "done"
    /\ UNCHANGED <<ct_text, ct_size, ct_start>>
    /\ UNCHANGED <<crawlVars, queryVars, configVars, idVars>>

\* crawler.py:53-67: the window is cut, the piece is trimmed and appended unless it
\* is empty, and start moves to the cut
ChunkTextCut ==
    /\ ct_pc = "loop"
    /\ ct_start < Len(ct_text)
    /\ ct_start + ct_size < Len(ct_text)
    /\ LET cut == CutOf(ct_text, ct_start, ct_size)
           chunk == Strip(Slice(ct_text, ct_start, cut.end))
       IN  /\ ct_chunks' = IF chunk # <<>> THEN Append(ct_chunks, chunk) ELSE ct_chunks
           /\ ct_start' = AdvanceStart(cut.end)
           /\ ct_cuts' = ct_cuts \cup {cut.kind}
    /\ UNCHANGED <<ct_pc, ct_text, ct_size>>
    /\ UNCHANGED <<crawlVars, queryVars, configVars, idVars>>

ChunkTextNext ==
    \/ ChunkTextReturn
    \/ ChunkTextLast
    \/ ChunkTextCut

SpecChunkText == ChunkTextInit /\ [][ChunkTextNext]_vars

\* chunk_text with chunk_size 0 as well
ChunkTextAnySizeInit == ChunkTextEnter(TextsUpTo(MaxScanLen), 0 .. MaxChunkSize)

\* chunk_text as the interpreter runs it: the loop goes on while an iteration can be
\* taken
SpecChunkTextFair ==
    ChunkTextAnySizeInit /\ [][ChunkTextNext]_vars /\ WF_vars(ChunkTextNext)

(***************************************************************************)
(* Properties of chunk_text.                                               *)
(***************************************************************************)
RECURSIVE Concat(_)
Concat(ss) == IF ss = <<>> THEN <<>> ELSE Head(ss) \o Concat(Tail(ss))

\* text is the chunks in order, with nothing but white space before, between and
\* after them
RECURSIVE Reconstructs(_, _)
Reconstructs(text, chunks) ==
    IF chunks = <<>> THEN Strip(text) = <<>>
    ELSE LET rest == LStrip(text)
             c == Head(chunks)
         IN  /\ MatchAt(rest, c, 1) \/ c = <<>>
             /\ Reconstructs(SubSeq(rest, Len(c) + 1, Len(rest)), Tail(chunks))

\* the part of the text the scan has passed
Scanned ==
    IF ct_pc = "done" THEN ct_text ELSE Slice(ct_text, 0, ct_start)

\* C11: at every point of the scan, and at its end, the chunks in order are the text
\* scanned so far less white space trimmed at the cuts: nothing else is lost,
\* duplicated or reordered.
C11_ChunksCoverText ==
    ct_pc # "idle" => Reconstructs(Scanned, ct_chunks)

\* a finished scan that cut at a paragraph break and trimmed white space away
C11_Witness ==
    /\ ct_pc = "done"
    /\ "paragraph" \in ct_cuts
    /\ Len(ct_chunks) >= 2
    /\ Len(Concat(ct_chunks)) < Len(ct_text)

(***************************************************************************)
(* Further properties of the crawl.                                        *)
(***************************************************************************)
\* C12: the links extracted from a page have the host of the page's URL, and every
\* URL queued or visited has the host of the seed.
C12_SameDomain ==
    /\ \A u \in queued_urls \cup visited_urls : netloc(u) = netloc(start_url)
    /\ (pc = "links" =>
            \A l \in extract_links_from_html(html, current_url) :
                netloc(l) = netloc(current_url))

\* the links of a page that carried an off-site href and a relative one have been
\* merged into the queue
C12_Witness ==
    /\ pc = "sleep"
    /\ Truthy(html)
    /\ \E h \in html.hrefs : netloc(urljoin(current_url, h)) # netloc(current_url)
    /\ \E h \in html.hrefs : h[1] = "/" /\ urljoin(current_url, h) \in queued_urls

\* the records the collection holds for url
RecordsOfUrl(url) == {r \in store : r.url = url}

\* every write of the current page has ended without error
AllWritten ==
    /\ pc = "links"
    /\ html.textlen > MinTextLen
    /\ \A i \in 0 .. (html.nchunks - 1) : <<current_url, i>> \in written

\* C13: the chunk at position i of the page's text is stored under id "URL_i" with
\* chunk index i, in whatever order the page's tasks end; once all writes of a page of
\* n chunks have ended without error the ids under its URL are URL_0 .. URL_(n-1).
C13_ChunkIdsFollowTextOrder ==
    /\ \A i \in Inserted :
          <<current_url, i>> \in written =>
              \E r \in store :
                  /\ r.id = MakeId(current_url, i)
                  /\ r.chunk_number = i
                  /\ r.document = PageChunks(html)[i + 1]
    /\ \A r \in store :
          r.id = MakeId(r.url, r.chunk_number) /\ r.document.part = r.chunk_number + 1
    /\ (AllWritten =>
          {r.id : r \in RecordsOfUrl(current_url)} =
              {MakeId(current_url, i) : i \in 0 .. (html.nchunks - 1)})

\* of a page of two chunks, the second has been written and the first has not yet
C13_Witness ==
    /\ pc = "insert"
    /\ html.nchunks = 2
    /\ toInsert = {0}
    /\ <<current_url, 1>> \in written
    /\ \E r \in store : r.id = MakeId(current_url, 1)

(***************************************************************************)
(* Further properties of the query path.                                   *)
(***************************************************************************)
\* C14: when retrieval returns n >= 1 records and no call fails, the sources returned
\* are n entries, n <= num_results, in retrieval order, the i-th with the title, url
\* and summary stored for the i-th record.
C14_SourcesFollowRetrieval ==
    (qpc = "returned" /\ q_error = "none" /\ Len(results) >= 1) =>
        /\ Len(sources) = Len(results)
        /\ Len(sources) <= num_results
        /\ \A i \in 1 .. Len(results) :
              /\ results[i] \in store
              /\ sources[i].title = results[i].title
              /\ sources[i].url = results[i].url
              /\ sources[i].summary = results[i].summary

\* a query on a collection of more than num_results records has returned num_results
\* sources, from records of two pages
C14_Witness ==
    /\ qpc = "returned"
    /\ q_error = "none"
    /\ Cardinality(store) > num_results
    /\ Len(sources) = num_results
    /\ sources[1].url # sources[2].url

\* the last min(4, n) of the n messages of history, as the prompt's lines
LastFourLines(history) ==
    LET n == Len(history)
        k == Min(RecentMessages, n)
    IN  [i \in 1 .. k |->
            [label |-> IF history[n - k + i].role = "user" THEN "user" ELSE "AI",
             content |-> history[n - k + i].content]]

\* the messages of the session that precede the current query
PriorMessages == SubSeq(session, 1, Len(session) - 1)

\* C15 as claimed: the prompt handed to the generation service holds the last
\* min(4, len(history)) messages of the history query_rag_system was given, and none
\* older.
C15_PromptHoldsLastFourOfHistory ==
    gen_calls >= 1 => prompt.history = LastFourLines(chat_history)

\* C15 as amended: the prompt holds every message of the history query_rag_system was
\* given, in order; the history render_chat gives is the last min(4, n) of the n
\* messages before the query, so that a prompt made through render_chat holds those
\* and none older.
C15_PromptHoldsGivenHistory ==
    gen_calls >= 1 =>
        /\ Len(prompt.history) = Len(chat_history)
        /\ \A i \in 1 .. Len(chat_history) :
              /\ prompt.history[i].content = chat_history[i].content
              /\ prompt.history[i].label = "user" <=> chat_history[i].role = "user"
        /\ (session # <<>> => prompt.history = LastFourLines(PriorMessages))

\* render_chat has queried after a session of more than 4 earlier messages, and the
\* prompt went out with 4 history lines
C15_Witness ==
    /\ gen_calls = 1
    /\ Len(session) > RecentMessages + 1
    /\ Len(prompt.history) = RecentMessages
    /\ prompt.history[1].content = Len(session) - RecentMessages

(***************************************************************************)
(* process_and_store_document: the two gathers.                           *)
(***************************************************************************)
\* a step in which an insert_chunk task of the current page runs
InsertRuns == toInsert' # toInsert /\ toInsert' \subseteq toInsert

\* C16: within one page no chunk is written before title synthesis and embedding have
\* ended for every chunk of the page: every step that runs an insert task or changes
\* the store is taken with no enrichment task pending and all the page's chunks
\* processed.
C16_JoinBeforeStorage ==
    [][(InsertRuns \/ store' # store \/ written' # written) =>
          /\ toEnrich = {}
          /\ DOMAIN processed_chunks = 0 .. (html.nchunks - 1)]_vars

\* of a page of two chunks, both processed, one has been written and one is still to be
C16_Witness ==
    /\ pc = "insert"
    /\ html.nchunks = 2
    /\ DOMAIN processed_chunks = {0, 1}
    /\ \E n \in {0, 1} : toInsert = {n} /\ <<current_url, 1 - n>> \in written

(***************************************************************************)
(* Pages that are not indexed.                                            *)
(***************************************************************************)
\* a step that writes nothing, counts no page and queues nothing
NothingStoredOrQueued ==
    /\ store' = store
    /\ written' = written
    /\ processed_count' = processed_count
    /\ queued_urls' = queued_urls

\* C17: when fetch_url fails (returns None) the URL stays visited and so fills one slot
\* of the cap; nothing is written, counted or queued for it; the crawl goes through the
\* pause back to the loop head; and no URL that was fetched is fetched again.
C17_FetchFailureSkipsPage ==
    [][/\ (pc = "fetch" /\ html'.kind = "None") =>
              /\ current_url \in visited_urls'
              /\ Cardinality(visited_urls') = Cardinality(visited_urls)
              /\ NothingStoredOrQueued
              /\ pc' = "sleep"
       /\ (pc = "sleep" /\ html.kind = "None") =>
              /\ visited_urls' = visited_urls
              /\ NothingStoredOrQueued
              /\ pc' = "loop"
       /\ \A u \in URLs : fetches[u] >= 1 => (u \in visited_urls' /\ fetches'[u] = 1)]_vars

\* the fetch of a page linked from the seed page has failed after the seed was indexed
C17_Witness ==
    /\ pc = "sleep"
    /\ html.kind = "None"
    /\ current_url # start_url
    /\ processed_count = 1
    /\ fetches[current_url] = 1
    /\ \A w \in written : w[1] # current_url

\* a page whose extracted text has at most 500 characters
ShortPage(h) == Truthy(h) /\ h.textlen <= MinTextLen

\* the same-domain links of the page that are not visited
UnvisitedLinks ==
    {l \in {urljoin(current_url, h) : h \in html.hrefs} :
        netloc(l) = netloc(current_url) /\ l \notin visited_urls}

\* C18: a fetched page whose text has at most 500 characters stays visited, is not
\* written and not counted; its unvisited same-domain links are queued, by the step
\* that queues them for an indexed page.
C18_ShortPageLinksOnly ==
    [][/\ (pc = "fetch" /\ ShortPage(html')) =>
              /\ current_url \in visited_urls'
              /\ NothingStoredOrQueued
              /\ pc' = "links"
       /\ pc = "links" =>
              /\ queued_urls' = queued_urls \cup UnvisitedLinks
              /\ visited_urls' = visited_urls
              /\ store' = store /\ written' = written
              /\ processed_count' = processed_count
       /\ (pc = "sleep" /\ ShortPage(html)) =>
              /\ current_url \in visited_urls'
              /\ NothingStoredOrQueued]_vars

\* the seed page had 500 characters of text and a link: nothing is written or counted,
\* the link is queued
C18_Witness ==
    /\ pc = "sleep"
    /\ ShortPage(html)
    /\ html.textlen = MinTextLen
    /\ current_url = start_url
    /\ store = {}
    /\ processed_count = 0
    /\ queued_urls # {}

(***************************************************************************)
(* Failures of one chunk.                                                 *)
(***************************************************************************)
\* the chunk numbers of the current page
ChunkNumbers == 0 .. (html.nchunks - 1)

\* C19: a failure of title synthesis, of embedding or of the write of one chunk leaves
\* the page's other chunks to be enriched and written and does not end the crawl:
\* each enrichment step ends one task and leaves the other chunks as they are, each
\* insert step ends one task and changes the store by that chunk's record at most,
\* no pending write is one the collection refuses when the store itself does not fail,
\* and when the page is done every chunk was enriched, every write was tried, and
\* the store holds for the page exactly the chunks whose own write succeeded.
C19_FailureIsolation ==
    [][/\ pc = "enrich" =>
              /\ pc' \in {"enrich", "insert"}
              /\ \E n \in toEnrich :
                    /\ toEnrich' = toEnrich \ {n}
                    /\ DOMAIN processed_chunks' = (DOMAIN processed_chunks) \cup {n}
                    /\ processed_chunks'[n].content = PageChunks(html)[n + 1]
                    /\ \A m \in DOMAIN processed_chunks :
                          processed_chunks'[m] = processed_chunks[m]
              /\ store' = store
       /\ pc = "insert" =>
              /\ pc' \in {"insert", "links"}
              /\ processed_chunks' = processed_chunks
              /\ \A n \in toInsert :
                    ~AddRaises(store, RecordOf(processed_chunks[n]), "ok")
              /\ \E n \in toInsert :
                    /\ toInsert' = toInsert \ {n}
                    /\ store \subseteq store'
                    /\ store' \ store \subseteq {RecordOf(processed_chunks[n])}
                    /\ written \subseteq written'
                    /\ written' \ written \subseteq {<<current_url, n>>}
       /\ (pc = "links" /\ html.textlen > MinTextLen) =>
              /\ toEnrich = {} /\ toInsert = {}
              /\ DOMAIN processed_chunks = ChunkNumbers
              /\ RecordsOfUrl(current_url) =
                    {RecordOf(processed_chunks[n]) :
                        n \in {m \in ChunkNumbers : <<current_url, m>> \in written}}
              /\ pc' = "sleep"]_vars

(***************************************************************************)
(* The dimension of the embeddings.                                       *)
(***************************************************************************)
\* C20: a chunk whose embedding call failed is not discarded: it reaches the writer
\* with an all-zero vector that has the dimension of the vectors the embedding service
\* returns, and all records of the collection have one embedding dimension.
C20_ZeroVectorHasServiceDimension ==
    /\ pc = "insert" => DOMAIN processed_chunks = ChunkNumbers
    /\ \A n \in DOMAIN processed_chunks :
          processed_chunks[n].embedding.dim = DimOf(EMBEDDING_MODEL)
    /\ \A r1, r2 \in store : r1.embedding.dim = r2.embedding.dim

(***************************************************************************)
(* Further properties of chunk_text.                                      *)
(***************************************************************************)
\* C21: chunk_text returns no empty chunk: every element of chunks, the final
\* remainder included, is non-empty after trimming.
C21_NoEmptyChunk ==
    \A i \in 1 .. Len(ct_chunks) : Strip(ct_chunks[i]) # <<>>

(***************************************************************************)
(* The id of a record on its own (crawler.py:171), on every URL of up to  *)
(* MaxUrlLen characters, URLs that end in "_" and digits among them, and  *)
(* every chunk number of 0 .. MaxChunkNumber.                             *)
(***************************************************************************)
\* the characters of a URL: a letter, the separator of the id, two digits
IdAlphabet == {"a", "_", "0", "1"}

RECURSIVE UrlsUpTo(_)
UrlsUpTo(n) ==
    IF n = 1 THEN {<<c>> : c \in IdAlphabet}
    ELSE LET shorter == UrlsUpTo(n - 1)
         IN  shorter \cup {Append(u, c) : u \in shorter, c \in IdAlphabet}

IdUrls == UrlsUpTo(MaxUrlLen)

\* enumerate(chunks) numbers the chunks from 0
ChunkNumbersUpTo == 0 .. MaxChunkNumber

MakeIdInit ==
    /\ CrawlIdle
    /\ store = {}
    /\ QueryIdle
    /\ ChunkIdle
    /\ id_pc = "make"
    /\ id_url \in IdUrls
    /\ id_chunk_number \in ChunkNumbersUpTo
    /\ id_value = <<>>

\* crawler.py:171: the id of the chunk is formatted
MakeIdStep ==
    /\ id_pc = "make"
    /\ id_value' = MakeId(id_url, id_chunk_number)
    /\ id_pc' = "made"
    /\ UNCHANGED <<id_url, id_chunk_number>>
    /\ UNCHANGED <<crawlVars, queryVars, chunkVars, configVars>>

SpecMakeId == MakeIdInit /\ [][MakeIdStep]_vars

\* C22: record ids do not collide: the id made from a URL and a chunk number is the
\* id of no other pair of a URL and a chunk number, be it another chunk of the same
\* page or a chunk of another page, URLs ending in "_" and digits included.
C22_IdsInjective ==
    id_pc = "made" =>
        \A u \in IdUrls, n \in ChunkNumbersUpTo :
            MakeId(u, n) = id_value => (u = id_url /\ n = id_chunk_number)

\* the id of chunk 0 of a URL that ends in "_1": the URL without that ending and the
\* chunk number 10 have the same characters in the same order, bar the separator
C22_Witness ==
    /\ id_pc = "made"
    /\ id_url = <<"a", "_", "1">>
    /\ id_chunk_number = 0
    /\ id_value = <<"a", "_", "1", "_", "0">>

(***************************************************************************)
(* The frontier of the crawl.                                             *)
(***************************************************************************)
\* C23: at the head of every iteration of the crawl loop no queued URL is visited, so
\* the URL popped is never a visited one and the loop head is left for the fetch or
\* for the return, never by the "continue" of the skip; visited_urls only grows; and
\* a URL leaves queued_urls only by being popped at the loop head.
C23_FrontierDisjoint ==
    [][/\ pc = "loop" =>
              /\ queued_urls \cap visited_urls = {}
              /\ pc' \in {"fetch", "done"}
       /\ pc' = "loop" => queued_urls' \cap visited_urls' = {}
       /\ visited_urls \subseteq visited_urls'
       /\ queued_urls \ queued_urls' # {} =>
              /\ pc = "loop"
              /\ queued_urls \ queued_urls' = {current_url'}]_vars

\* the loop head after a page that linked to a visited page and to a new one: the
\* new one is queued, the visited one is not
C23_Witness ==
    /\ pc = "loop"
    /\ relinked
    /\ visited_urls # {}
    /\ queued_urls # {}
    /\ queued_urls \cap visited_urls = {}

\* C24: with a chunk_size of 1 or more every iteration that stays in the loop moves
\* start forward and chunk_text returns; with chunk_size 0 and a non-empty text start
\* stays at 0 and chunk_text never returns.
C24_ChunkerProgress ==
    /\ [][(ct_pc = "loop" /\ ct_pc' = "loop" /\ ct_size >= 1) =>
              ct_start' > ct_start]_vars
    /\ <>(ct_size >= 1 => ct_pc = "done")
    /\ []((ct_size = 0 /\ ct_text # <<>>) => (ct_pc = "loop" /\ ct_start = 0))

\* a scan has returned after it cut at a sentence break, before the end of its
\* window, and took the rest of the text as the last chunk
C24_Witness ==
    /\ ct_pc = "done"
    /\ ct_size >= 2
    /\ {"sentence", "last"} \subseteq ct_cuts
    /\ Len(ct_chunks) >= 2

====
